---- MODULE Spec2Model ----
(***************************************************************************)
(* Model of the Valetudo <-> Matterbridge adapter (class ValetudoPlatform). *)
(*                                                                         *)
(* The executable program is dist/platforms/valetudo/platform.js.  The     *)
(* file src/platforms/valetudo/platform.ts agrees with it except at lines  *)
(* 112, 116 and 127-129, which are not TypeScript and cannot be compiled;  *)
(* wherever the two differ the model follows platform.js.                  *)
(*                                                                         *)
(* A JavaScript string is modelled as a sequence of lexemes (each lexeme a  *)
(* TLA+ string); the text is the concatenation of the lexemes.  The lexeme  *)
(* alphabet is uniquely decodable, so two sequences are equal iff the      *)
(* texts are equal.  It contains no ".", "e", "x", "b", "o" or "Infinity"   *)
(* lexeme, so a numeric literal is a sign followed by decimal digits.      *)
(*                                                                         *)
(* A JavaScript value is a record [t |-> type tag, v |-> content].         *)
(***************************************************************************)
EXTENDS Integers, Sequences, FiniteSets, TLC

\* ------------------------------------------------------------------ bounds
MaxAreaIds == 2
MaxBatteryLen == 2
MaxInbox == 2

\* ------------------------------------------------------- JavaScript values
Undefined == [t |-> "undefined", v |-> <<>>]
Null == [t |-> "null", v |-> <<>>]
NaN == [t |-> "nan", v |-> 0]
Str(s) == [t |-> "str", v |-> s]
Num(n) == [t |-> "num", v |-> n]
Bool(b) == [t |-> "bool", v |-> b]
Arr(s) == [t |-> "arr", v |-> s]
Obj(entries) == [t |-> "obj", v |-> entries]

\* JavaScript ToBoolean, as used by `if (x)` and `x && y`
Truthy(x) ==
  CASE x.t = "undefined" -> FALSE
    [] x.t = "null" -> FALSE
    [] x.t = "nan" -> FALSE
    [] x.t = "bool" -> x.v
    [] x.t = "num" -> x.v # 0
    [] x.t = "str" -> Len(x.v) > 0
    [] OTHER -> TRUE

\* the ?? operator
Nullish(x, d) == IF x.t \in {"undefined", "null"} THEN d ELSE x

Digits == <<"0", "1", "2", "3", "4", "5", "6", "7", "8", "9">>
DigitSet == {Digits[i] : i \in 1..10}
DigitVal(d) == (CHOOSE i \in 1..10 : Digits[i] = d) - 1

RECURSIVE DigitsVal(_, _)
DigitsVal(s, acc) ==
  IF s = <<>> THEN acc ELSE DigitsVal(Tail(s), 10 * acc + DigitVal(Head(s)))

AllDigits(s) == \A i \in 1..Len(s) : s[i] \in DigitSet

RECURSIVE NatToStr(_)
NatToStr(n) ==
  IF n < 10 THEN <<Digits[n + 1]>> ELSE NatToStr(n \div 10) \o <<Digits[(n % 10) + 1]>>

RECURSIVE SkipWs(_)
SkipWs(s) == IF s # <<>> /\ Head(s) = " " THEN SkipWs(Tail(s)) ELSE s

RECURSIVE Reverse(_)
Reverse(s) == IF s = <<>> THEN <<>> ELSE Reverse(Tail(s)) \o <<Head(s)>>

Trim(s) == Reverse(SkipWs(Reverse(SkipWs(s))))

\* Number(string): StringToNumber on the model's alphabet
Number(s) ==
  LET body == Trim(s)
      signed == body # <<>> /\ Head(body) \in {"-", "+"}
      digits == IF signed THEN Tail(body) ELSE body
  IN  IF body = <<>> THEN Num(0)
      ELSE IF digits # <<>> /\ AllDigits(digits)
           THEN Num(IF signed /\ Head(body) = "-"
                    THEN 0 - DigitsVal(digits, 0) ELSE DigitsVal(digits, 0))
           ELSE NaN

NumberIsNaN(x) == x.t = "nan"

EndsWith(s, suffix) ==
  /\ Len(suffix) <= Len(s)
  /\ SubSeq(s, Len(s) - Len(suffix) + 1, Len(s)) = suffix

\* ------------------------------------------------------------------- JSON
\* A property key is an array index when it is the canonical decimal text
\* of a non-negative integer; such keys enumerate first, in numeric order.
IsIndexKey(k) == k # <<>> /\ AllDigits(k) /\ (Len(k) = 1 \/ k[1] # "0")

HasKey(entries, k) == \E i \in 1..Len(entries) : entries[i][1] = k

\* position at which a new key is inserted in own-property order
InsertPos(entries, k) ==
  IF IsIndexKey(k)
  THEN 1 + Cardinality({i \in 1..Len(entries) :
                          IsIndexKey(entries[i][1])
                          /\ DigitsVal(entries[i][1], 0) < DigitsVal(k, 0)})
  ELSE Len(entries) + 1

\* define property k of an object: overwrite in place, or insert
ObjPut(entries, k, val) ==
  IF HasKey(entries, k)
  THEN [i \in 1..Len(entries) |->
          IF entries[i][1] = k THEN <<k, val>> ELSE entries[i]]
  ELSE LET p == InsertPos(entries, k)
       IN  SubSeq(entries, 1, p - 1) \o << <<k, val>> >> \o SubSeq(entries, p, Len(entries))

ParseFail == [ok |-> FALSE, val |-> Undefined, rest |-> <<>>]
ParseOk(val, rest) == [ok |-> TRUE, val |-> val, rest |-> rest]

\* index of the first quote lexeme in s, 0 if none
RECURSIVE QuotePos(_, _)
QuotePos(s, i) ==
  IF i > Len(s) THEN 0 ELSE IF s[i] = "\"" THEN i ELSE QuotePos(s, i + 1)

\* s starts just after an opening quote
ParseStringBody(s) ==
  LET q == QuotePos(s, 1)
  IN  IF q = 0 THEN ParseFail
      ELSE ParseOk(Str(SubSeq(s, 1, q - 1)), SubSeq(s, q + 1, Len(s)))

RECURSIVE DigitRun(_, _)
DigitRun(s, i) ==
  IF i <= Len(s) /\ s[i] \in DigitSet THEN DigitRun(s, i + 1) ELSE i - 1

\* JSON number: -? (0 | [1-9][0-9]*)
ParseNumber(s) ==
  LET neg == s # <<>> /\ Head(s) = "-"
      t == IF neg THEN Tail(s) ELSE s
      n == IF t # <<>> /\ Head(t) = "0" THEN 1 ELSE DigitRun(t, 1)
      val == DigitsVal(SubSeq(t, 1, n), 0)
  IN  IF n = 0 THEN ParseFail
      ELSE ParseOk(Num(IF neg THEN 0 - val ELSE val), SubSeq(t, n + 1, Len(t)))

RECURSIVE ParseValue(_)
RECURSIVE ParseMembers(_, _)
RECURSIVE ParseElements(_, _)

ParseValue(s0) ==
  LET s == SkipWs(s0)
  IN  IF s = <<>> THEN ParseFail
      ELSE LET h == Head(s)
               r == Tail(s)
           IN  CASE h = "{" ->
                      IF SkipWs(r) # <<>> /\ Head(SkipWs(r)) = "}"
                      THEN ParseOk(Obj(<<>>), Tail(SkipWs(r)))
                      ELSE ParseMembers(r, <<>>)
                 [] h = "[" ->
                      IF SkipWs(r) # <<>> /\ Head(SkipWs(r)) = "]"
                      THEN ParseOk(Arr(<<>>), Tail(SkipWs(r)))
                      ELSE ParseElements(r, <<>>)
                 [] h = "\"" -> ParseStringBody(r)
                 [] h = "null" -> ParseOk(Null, r)
                 [] h = "true" -> ParseOk(Bool(TRUE), r)
                 [] h = "false" -> ParseOk(Bool(FALSE), r)
                 [] h = "-" \/ h \in DigitSet -> ParseNumber(s)
                 [] OTHER -> ParseFail

\* members of an object, s0 starts at a key; acc: entries so far
ParseMembers(s0, acc) ==
  LET s == SkipWs(s0)
  IN  IF s = <<>> \/ Head(s) # "\"" THEN ParseFail
      ELSE LET k == ParseStringBody(Tail(s))
               c == SkipWs(k.rest)
           IN  IF ~k.ok \/ c = <<>> \/ Head(c) # ":" THEN ParseFail
               ELSE LET val == ParseValue(Tail(c))
                        d == SkipWs(val.rest)
                        acc2 == ObjPut(acc, k.val.v, val.val)
                    IN  IF ~val.ok \/ d = <<>> THEN ParseFail
                        ELSE IF Head(d) = "}" THEN ParseOk(Obj(acc2), Tail(d))
                        ELSE IF Head(d) = "," THEN ParseMembers(Tail(d), acc2)
                        ELSE ParseFail

ParseElements(s0, acc) ==
  LET val == ParseValue(s0)
      d == SkipWs(val.rest)
      acc2 == Append(acc, val.val)
  IN  IF ~val.ok \/ d = <<>> THEN ParseFail
      ELSE IF Head(d) = "]" THEN ParseOk(Arr(acc2), Tail(d))
      ELSE IF Head(d) = "," THEN ParseElements(Tail(d), acc2)
      ELSE ParseFail

\* JSON.parse: [ok |-> FALSE] stands for a thrown SyntaxError
JSONparse(s) ==
  LET r == ParseValue(s)
  IN  IF r.ok /\ SkipWs(r.rest) = <<>> THEN ParseOk(r.val, <<>>) ELSE ParseFail

RECURSIVE JSONstringify(_)
RECURSIVE StringifyElements(_)
RECURSIVE StringifyMembers(_, _)

\* elements of an array; undefined is written as null
StringifyElements(s) ==
  IF s = <<>> THEN <<>>
  ELSE (IF Head(s).t = "undefined" THEN <<"null">> ELSE JSONstringify(Head(s)))
       \o (IF Tail(s) = <<>> THEN <<>> ELSE <<",">> \o StringifyElements(Tail(s)))

\* members of an object; undefined-valued properties are omitted
StringifyMembers(s, first) ==
  IF s = <<>> THEN <<>>
  ELSE IF Head(s)[2].t = "undefined" THEN StringifyMembers(Tail(s), first)
  ELSE (IF first THEN <<>> ELSE <<",">>)
       \o <<"\"">> \o Head(s)[1] \o <<"\"", ":">> \o JSONstringify(Head(s)[2])
       \o StringifyMembers(Tail(s), FALSE)

\* JSON.stringify of a defined value, as text
JSONstringify(x) ==
  CASE x.t = "null" -> <<"null">>
    [] x.t = "nan" -> <<"null">>
    [] x.t = "bool" -> IF x.v THEN <<"true">> ELSE <<"false">>
    [] x.t = "num" -> IF x.v < 0 THEN <<"-">> \o NatToStr(0 - x.v) ELSE NatToStr(x.v)
    [] x.t = "str" -> <<"\"">> \o x.v \o <<"\"">>
    [] x.t = "arr" -> <<"[">> \o StringifyElements(x.v) \o <<"]">>
    [] x.t = "obj" -> <<"{">> \o StringifyMembers(x.v, TRUE) \o <<"}">>

\* Object.entries: [ok |-> FALSE] stands for a thrown TypeError
ObjectEntries(x) ==
  CASE x.t \in {"undefined", "null"} -> [ok |-> FALSE, val |-> <<>>]
    [] x.t = "obj" -> [ok |-> TRUE, val |-> x.v]
    [] x.t = "arr" ->
         [ok |-> TRUE, val |-> [i \in 1..Len(x.v) |-> <<NatToStr(i - 1), x.v[i]>>]]
    [] x.t = "str" ->
         [ok |-> TRUE, val |-> [i \in 1..Len(x.v) |-> <<NatToStr(i - 1), Str(<<x.v[i]>>)>>]]
    [] OTHER -> [ok |-> TRUE, val |-> <<>>]

\* ------------------------------------------------------------ program state
VARIABLES
  cfg,            \* this.cfg: the configuration record, immutable
  connected,      \* the transport client has emitted 'connect' at least once
  subscriptions,  \* topics the client has been asked to subscribe to
  watertank,      \* this.watertank
  segments,       \* this.segments
  rvc,            \* attributes of the device, as last set through its update API
  effects,        \* calls made on the collaborators by the latest handler, in order
  threw,          \* the latest handler raised an error to its caller
  event,          \* the latest event: [kind, x, y]
  inbox,          \* events emitted by the host and not yet handled, oldest first
  profile         \* the traffic profile the inputs of this behaviour are drawn from

vars == <<profile, cfg, inbox, connected, subscriptions, watertank, segments, rvc, effects, threw, event>>

\* ------------------------------------------------------- topics and strings
BatteryLevelSuffix == <<"BatteryStateAttribute", "/", "level">>
BatteryStatusSuffix == <<"BatteryStateAttribute", "/", "status">>
DockStatusSuffix == <<"Dock", "StatusStateAttribute", "/", "status">>
StatusErrorSuffix == <<"StatusStateAttribute", "/", "error">>
WatertankSuffix == <<"AttachmentStateAttribute", "/", "watertank">>
FanPresetSuffix == <<"FanSpeedControlCapability", "/", "preset">>
WaterPresetSuffix == <<"WaterUsageControlCapability", "/", "preset">>
SegmentsSuffix == <<"MapData", "/", "segments">>

OperationSetSuffix == <<"BasicControlCapability", "/", "operation", "/", "set">>
OperationModeSetSuffix == <<"OperationModeControlCapability", "/", "preset", "/", "set">>
FanSetSuffix == <<"FanSpeedControlCapability", "/", "preset", "/", "set">>
WaterSetSuffix == <<"WaterUsageControlCapability", "/", "preset", "/", "set">>
SegmentCleanSuffix == <<"MapSegmentationCapability", "/", "clean", "/", "set">>

\* the suffixes of onMqttConnect, in the order of the code
SubscribedSuffixes ==
  <<BatteryLevelSuffix, BatteryStatusSuffix, DockStatusSuffix, StatusErrorSuffix,
    WatertankSuffix, FanPresetSuffix, WaterPresetSuffix, SegmentsSuffix>>

\* this.base
Base == cfg.mqtt.topicPrefix.v \o <<"/">> \o cfg.mqtt.identifier.v

TopicOf(suffix) == Base \o <<"/">> \o suffix

\* ------------------------------------------------------ handler state record
\* The fields a handler can change; effects and threw start afresh per handler.
Cur ==
  [subscriptions |-> subscriptions, watertank |-> watertank, segments |-> segments,
   rvc |-> rvc, effects |-> <<>>, threw |-> FALSE]

Effect(call, x, y) == [call |-> call, x |-> x, y |-> y]
Emit(st, e) == [st EXCEPT !.effects = Append(@, e)]

\* the device's update API
updateBattery(st, pct) ==
  Emit([st EXCEPT !.rvc.battery = pct], Effect("updateBattery", pct, Undefined))
updateOperationalState(st, s) ==
  Emit([st EXCEPT !.rvc.operationalState = Str(<<s>>)],
       Effect("updateOperationalState", Str(<<s>>), Undefined))
updateRunMode(st, m) ==
  Emit([st EXCEPT !.rvc.runMode = Str(<<m>>)], Effect("updateRunMode", Str(<<m>>), Undefined))
updateCleanMode(st, m) ==
  Emit([st EXCEPT !.rvc.cleanMode = m], Effect("updateCleanMode", m, Undefined))
updateServiceAreas(st, areas) ==
  Emit([st EXCEPT !.rvc.serviceAreas = areas], Effect("updateServiceAreas", areas, Undefined))

logInfo(st) == Emit(st, Effect("log.info", Undefined, Undefined))
logWarn(st) == Emit(st, Effect("log.warn", Undefined, Undefined))

\* variant: the suffix is subscribed without the base
subNoBase(st, suffix) ==
  Emit([st EXCEPT !.subscriptions = @ \cup {suffix}],
       Effect("subscribe", Str(suffix), Undefined))

sub(st, suffix) ==
  Emit([st EXCEPT !.subscriptions = @ \cup {TopicOf(suffix)}],
       Effect("subscribe", Str(TopicOf(suffix)), Undefined))

publish(st, suffix, payload) ==
  LET value == IF payload.t = "str" THEN payload.v ELSE JSONstringify(payload)
  IN  Emit(st, Effect("publish", Str(TopicOf(suffix)), Str(value)))

RECURSIVE subAll(_, _)
subAll(st, suffixes) ==
  IF suffixes = <<>> THEN st ELSE subAll(sub(st, Head(suffixes)), Tail(suffixes))

onMqttConnect(st) == subAll(st, SubscribedSuffixes)

\* ------------------------------------------------- inbound message handling
\* topic ends with BatteryStateAttribute/level
batteryLevel(st, msg) ==
  LET pct == Number(msg)
  IN  IF ~NumberIsNaN(pct) THEN updateBattery(st, pct) ELSE st

\* topic ends with BatteryStateAttribute/status
batteryStatus(st, msg) ==
  IF msg = <<"charging">> THEN updateOperationalState(st, "Charging") ELSE st

\* variant: idle and pause exchanged
dockStatusPauseDocks(st, msg) ==
  IF msg = <<"cleaning">> THEN updateOperationalState(st, "Running")
  ELSE IF msg = <<"idle">> THEN updateOperationalState(st, "Paused")
  ELSE IF msg = <<"pause">> THEN updateOperationalState(st, "Docked")
  ELSE IF msg = <<"error">> THEN updateOperationalState(st, "Error")
  ELSE st

\* topic ends with DockStatusStateAttribute/status
dockStatus(st, msg) ==
  IF msg = <<"cleaning">> THEN updateOperationalState(st, "Running")
  ELSE IF msg = <<"idle">> THEN updateOperationalState(st, "Docked")
  ELSE IF msg = <<"pause">> THEN updateOperationalState(st, "Paused")
  ELSE IF msg = <<"error">> THEN updateOperationalState(st, "Error")
  ELSE st

\* variant: the null marker is not recognised
statusErrorNoNullMarker(st, msg) ==
  IF Truthy(Str(msg)) /\ msg # <<"{", "}">>
  THEN updateOperationalState(st, "Error")
  ELSE st

\* topic ends with StatusStateAttribute/error
statusError(st, msg) ==
  IF Truthy(Str(msg)) /\ msg # <<"{", "}">> /\ msg # <<"null">>
  THEN updateOperationalState(st, "Error")
  ELSE st

\* variant: only the payload "true" counts as attached
watertankStateTrueOnly(st, msg) ==
  [st EXCEPT !.watertank = (msg = <<"true">>)]

\* variant: attaching the tank sends the mop water preset at once
watertankStateSendsPreset(st, msg) ==
  LET st1 == [st EXCEPT !.watertank = (msg = <<"true">> \/ msg = <<"1">>)]
  IN  IF st1.watertank THEN publish(st1, WaterSetSuffix, Str(<<"medium">>)) ELSE st1

\* topic ends with AttachmentStateAttribute/watertank
watertankState(st, msg) ==
  [st EXCEPT !.watertank = (msg = <<"true">> \/ msg = <<"1">>)]

\* ([id, name]) => ({ id, name })
AreaOf(entry) == Obj(<< <<(<<"id">>), Str(entry[1])>>, <<(<<"name">>), entry[2]>> >>)

\* variant: the area list is derived from the table held before the message
mapSegmentsAreasFromOldTable(st, msg) ==
  LET parsed == JSONparse(msg)
  IN  IF ~parsed.ok THEN logWarn(st)
      ELSE LET st1 == [st EXCEPT !.segments = parsed.val]
           IN  IF cfg.rvc.mapServiceAreasFromSegments # Bool(FALSE)
               THEN LET entries == ObjectEntries(st.segments)
                    IN  IF ~entries.ok THEN logWarn(st1)
                        ELSE updateServiceAreas(st1,
                               Arr([i \in 1..Len(entries.val) |-> AreaOf(entries.val[i])]))
               ELSE st1

\* variant: no try/catch around the parse
mapSegmentsNoCatch(st, msg) ==
  LET parsed == JSONparse(msg)
  IN  IF ~parsed.ok THEN [st EXCEPT !.threw = TRUE]
      ELSE LET st1 == [st EXCEPT !.segments = parsed.val]
           IN  IF cfg.rvc.mapServiceAreasFromSegments # Bool(FALSE)
               THEN LET entries == ObjectEntries(st1.segments)
                    IN  IF ~entries.ok THEN [st1 EXCEPT !.threw = TRUE]
                        ELSE updateServiceAreas(st1,
                               Arr([i \in 1..Len(entries.val) |-> AreaOf(entries.val[i])]))
               ELSE st1

RECURSIVE AssignEntries(_, _)
\* Object.assign on entry lists
AssignEntries(target, source) ==
  IF source = <<>> THEN target
  ELSE AssignEntries(ObjPut(target, Head(source)[1], Head(source)[2]), Tail(source))

\* variant: the parsed object is merged into the stored table
mapSegmentsMerge(st, msg) ==
  LET parsed == JSONparse(msg)
  IN  IF ~parsed.ok THEN logWarn(st)
      ELSE LET merged == IF parsed.val.t = "obj" /\ st.segments.t = "obj"
                         THEN Obj(AssignEntries(st.segments.v, parsed.val.v))
                         ELSE parsed.val
               st1 == [st EXCEPT !.segments = merged]
           IN  IF cfg.rvc.mapServiceAreasFromSegments # Bool(FALSE)
               THEN LET entries == ObjectEntries(st1.segments)
                    IN  IF ~entries.ok THEN logWarn(st1)
                        ELSE updateServiceAreas(st1,
                               Arr([i \in 1..Len(entries.val) |-> AreaOf(entries.val[i])]))
               ELSE st1

\* topic ends with MapData/segments: the try block and its catch
mapSegments(st, msg) ==
  LET parsed == JSONparse(msg)
  IN  IF ~parsed.ok THEN logWarn(st)
      ELSE LET st1 == [st EXCEPT !.segments = parsed.val]
           IN  IF cfg.rvc.mapServiceAreasFromSegments # Bool(FALSE)
               THEN LET entries == ObjectEntries(st1.segments)
                    IN  IF ~entries.ok THEN logWarn(st1)
                        ELSE updateServiceAreas(st1,
                               Arr([i \in 1..Len(entries.val) |-> AreaOf(entries.val[i])]))
               ELSE st1

\* variant: a topic that matches no suffix is reported
onMqttMessageWarnsUnmatched(st, topic, msg) ==
  IF EndsWith(topic, BatteryLevelSuffix) THEN batteryLevel(st, msg)
  ELSE IF EndsWith(topic, BatteryStatusSuffix) THEN batteryStatus(st, msg)
  ELSE IF EndsWith(topic, DockStatusSuffix) THEN dockStatus(st, msg)
  ELSE IF EndsWith(topic, StatusErrorSuffix) THEN statusError(st, msg)
  ELSE IF EndsWith(topic, WatertankSuffix) THEN watertankState(st, msg)
  ELSE IF EndsWith(topic, FanPresetSuffix) THEN st
  ELSE IF EndsWith(topic, WaterPresetSuffix) THEN st
  ELSE IF EndsWith(topic, SegmentsSuffix) THEN mapSegments(st, msg)
  ELSE logWarn(st)

onMqttMessage(st, topic, msg) ==
  IF EndsWith(topic, BatteryLevelSuffix) THEN batteryLevel(st, msg)
  ELSE IF EndsWith(topic, BatteryStatusSuffix) THEN batteryStatus(st, msg)
  ELSE IF EndsWith(topic, DockStatusSuffix) THEN dockStatus(st, msg)
  ELSE IF EndsWith(topic, StatusErrorSuffix) THEN statusError(st, msg)
  ELSE IF EndsWith(topic, WatertankSuffix) THEN watertankState(st, msg)
  ELSE IF EndsWith(topic, FanPresetSuffix) THEN st
  ELSE IF EndsWith(topic, WaterPresetSuffix) THEN st
  ELSE IF EndsWith(topic, SegmentsSuffix) THEN mapSegments(st, msg)
  ELSE st

\* -------------------------------------------------------- outbound commands
\* variant: only Idle stops
onRunModeChangeOnlyIdleStops(st, target) ==
  LET op == IF target = Str(<<"Idle">>) THEN "STOP" ELSE "START"
  IN  publish(st, OperationSetSuffix, Str(<<op>>))

onRunModeChange(st, target) ==
  LET op == IF target = Str(<<"Cleaning">>) THEN "START" ELSE "STOP"
  IN  publish(st, OperationSetSuffix, Str(<<op>>))

onPause(st) == publish(st, OperationSetSuffix, Str(<<"PAUSE">>))
onResume(st) == publish(st, OperationSetSuffix, Str(<<"START">>))
onDock(st) == publish(st, OperationSetSuffix, Str(<<"HOME">>))

\* if (preset) this.publish(suffix, preset)
publishIf(st, suffix, preset) ==
  IF Truthy(preset) THEN publish(st, suffix, preset) ELSE st

\* variant: Mop is applied without looking at the attachment flag
applyCleanModeNoTankCheck(st, mode) ==
  LET fanVac == Nullish(cfg.rvc.fanPresetForVacuum, Str(<<"standard">>))
      opVac == cfg.rvc.operationModePresetVacuum
      fanMop == Nullish(cfg.rvc.fanPresetForMop, Null)
      waterMop == Nullish(cfg.rvc.waterPresetForMop, Str(<<"medium">>))
      opMop == cfg.rvc.operationModePresetMop
  IN  IF mode = Str(<<"Vacuum">>)
      THEN publish(publishIf(publishIf(st, OperationModeSetSuffix, opVac),
                             FanSetSuffix, fanVac),
                   WaterSetSuffix, Str(<<"off">>))
      ELSE IF mode = Str(<<"Mop">>)
      THEN publishIf(publishIf(publishIf(st, OperationModeSetSuffix, opMop),
                               FanSetSuffix, fanMop),
                     WaterSetSuffix, waterMop)
      ELSE st

\* variant: Vacuum turns the water off only when a fan preset is configured
applyCleanModeOffWithFanOnly(st, mode) ==
  LET fanVac == Nullish(cfg.rvc.fanPresetForVacuum, Str(<<"standard">>))
      opVac == cfg.rvc.operationModePresetVacuum
      fanMop == Nullish(cfg.rvc.fanPresetForMop, Null)
      waterMop == Nullish(cfg.rvc.waterPresetForMop, Str(<<"medium">>))
      opMop == cfg.rvc.operationModePresetMop
  IN  IF mode = Str(<<"Vacuum">>)
      THEN LET st1 == publishIf(st, OperationModeSetSuffix, opVac)
           IN  IF Truthy(fanVac)
               THEN publish(publish(st1, FanSetSuffix, fanVac), WaterSetSuffix, Str(<<"off">>))
               ELSE st1
      ELSE IF mode = Str(<<"Mop">>)
      THEN IF ~st.watertank THEN logInfo(st)
           ELSE publishIf(publishIf(publishIf(st, OperationModeSetSuffix, opMop),
                                    FanSetSuffix, fanMop),
                          WaterSetSuffix, waterMop)
      ELSE st

\* variant: the fan preset is published before the operation-mode preset
applyCleanModeFanFirst(st, mode) ==
  LET fanVac == Nullish(cfg.rvc.fanPresetForVacuum, Str(<<"standard">>))
      opVac == cfg.rvc.operationModePresetVacuum
      fanMop == Nullish(cfg.rvc.fanPresetForMop, Null)
      waterMop == Nullish(cfg.rvc.waterPresetForMop, Str(<<"medium">>))
      opMop == cfg.rvc.operationModePresetMop
  IN  IF mode = Str(<<"Vacuum">>)
      THEN publish(publishIf(publishIf(st, FanSetSuffix, fanVac),
                             OperationModeSetSuffix, opVac),
                   WaterSetSuffix, Str(<<"off">>))
      ELSE IF mode = Str(<<"Mop">>)
      THEN IF ~st.watertank THEN logInfo(st)
           ELSE publishIf(publishIf(publishIf(st, FanSetSuffix, fanMop),
                                    OperationModeSetSuffix, opMop),
                          WaterSetSuffix, waterMop)
      ELSE st

applyCleanMode(st, mode) ==
  LET fanVac == Nullish(cfg.rvc.fanPresetForVacuum, Str(<<"standard">>))
      opVac == cfg.rvc.operationModePresetVacuum
      fanMop == Nullish(cfg.rvc.fanPresetForMop, Null)
      waterMop == Nullish(cfg.rvc.waterPresetForMop, Str(<<"medium">>))
      opMop == cfg.rvc.operationModePresetMop
  IN  IF mode = Str(<<"Vacuum">>)
      THEN publish(publishIf(publishIf(st, OperationModeSetSuffix, opVac),
                             FanSetSuffix, fanVac),
                   WaterSetSuffix, Str(<<"off">>))
      ELSE IF mode = Str(<<"Mop">>)
      THEN IF ~st.watertank THEN logInfo(st)
           ELSE publishIf(publishIf(publishIf(st, OperationModeSetSuffix, opMop),
                                    FanSetSuffix, fanMop),
                          WaterSetSuffix, waterMop)
      ELSE st

onCleanModeChange(st, mode) == applyCleanMode(st, mode)

\* Array.isArray(x)
IsArray(x) == x.t = "arr"

\* variant: the run-mode is set before the publish
cleanServiceAreasUpdateFirst(st, areaIds) ==
  IF ~IsArray(areaIds) \/ Len(areaIds.v) = 0 THEN st
  ELSE publish(updateRunMode(st, "Cleaning"),
               SegmentCleanSuffix, Obj(<< <<(<<"segment_ids">>), areaIds>> >>))

\* variant: an empty array is not rejected
cleanServiceAreasNoLengthCheck(st, areaIds) ==
  IF ~IsArray(areaIds) THEN st
  ELSE updateRunMode(
         publish(st, SegmentCleanSuffix, Obj(<< <<(<<"segment_ids">>), areaIds>> >>)),
         "Cleaning")

cleanServiceAreas(st, areaIds) ==
  IF ~IsArray(areaIds) \/ Len(areaIds.v) = 0 THEN st
  ELSE updateRunMode(
         publish(st, SegmentCleanSuffix, Obj(<< <<(<<"segment_ids">>), areaIds>> >>)),
         "Cleaning")

\* ------------------------------------------------------------------ inputs
Q == "\""

MkCfg(def, map, opVac, fanVac, opMop, fanMop, waterMop) ==
  [name |-> Undefined,
   mqtt |-> [topicPrefix |-> Str(<<"valetudo">>), identifier |-> Str(<<"robot">>)],
   rvc |-> [serverMode |-> Undefined,
            defaultCleanMode |-> def,
            mapServiceAreasFromSegments |-> map,
            operationModePresetVacuum |-> opVac,
            fanPresetForVacuum |-> fanVac,
            operationModePresetMop |-> opMop,
            fanPresetForMop |-> fanMop,
            waterPresetForMop |-> waterMop]]

\* every option absent
DefaultCfg ==
  MkCfg(Undefined, Undefined, Undefined, Undefined, Undefined, Undefined, Undefined)
\* area derivation disabled, presets explicitly null or empty
NoAreasCfg ==
  MkCfg(Str(<<"Vacuum">>), Bool(FALSE), Null, Str(<<>>), Str(<<>>), Null, Str(<<>>))
\* every option given
FullCfg ==
  MkCfg(Str(<<"Mop">>), Bool(TRUE), Str(<<"vacuum">>), Str(<<"max">>),
        Str(<<"mop">>), Str(<<"low">>), Str(<<"high">>))

PresetValues == {Undefined, Null, Str(<<>>), Str(<<"custom">>)}
\* every combination of the five presets
PresetConfigs ==
  {MkCfg(Undefined, Undefined, opVac, fanVac, opMop, fanMop, waterMop) :
     opVac \in PresetValues, fanVac \in PresetValues, opMop \in PresetValues,
     fanMop \in PresetValues, waterMop \in PresetValues}

\* A behaviour draws its inputs according to a traffic profile: the full
\* payload set on the topics of one group and a core set on the others, or
\* (profile "presets") every preset configuration with watertank traffic only.
Profiles == {"battery", "state", "segments", "control", "presets"}

ConfigsOf(p) ==
  IF p = "presets" THEN PresetConfigs ELSE {DefaultCfg, NoAreasCfg, FullCfg}

RECURSIVE SeqsUpTo(_, _)
SeqsUpTo(S, n) ==
  IF n = 0 THEN {<<>>}
  ELSE LET shorter == SeqsUpTo(S, n - 1)
       IN  shorter \cup {Append(s, x) : s \in shorter, x \in S}

BatteryAlphabet == {"5", "-", " "}
BatteryPayloads == SeqsUpTo(BatteryAlphabet, MaxBatteryLen) \cup {<<"charging">>}
StatusPayloads == {<<"charging">>, <<"idle">>, <<>>}
DockPayloads ==
  {<<"cleaning">>, <<"idle">>, <<"pause">>, <<"error">>, <<"charging">>, <<>>}
ErrorPayloads ==
  {<<>>, <<"{", "}">>, <<"null">>, <<"error">>, <<" ">>,
   <<"{", Q, "message", Q, ":", Q, "stuck", Q, "}">>}
WatertankPayloads == {<<"true">>, <<"1">>, <<"false">>, <<"0">>, <<>>}
PresetPayloads == {<<"standard">>}

KitchenHall ==
  <<"{", Q, "1", Q, ":", Q, "Kitchen", Q, ",", Q, "2", Q, ":", Q, "Hall", Q, "}">>
HallKitchen ==
  <<"{", Q, "2", Q, ":", Q, "Hall", Q, ",", Q, "1", Q, ":", Q, "Kitchen", Q, "}">>
ValidObjectPayloads ==
  {<<"{", "}">>,
   KitchenHall,
   HallKitchen,
   <<"{", " ", Q, "1", Q, " ", ":", Q, "Kitchen", Q, "}", " ">>,
   <<"{", Q, "Attic", Q, ":", Q, "Hall", Q, ",", Q, "1", Q, ":", Q, "Kitchen", Q, "}">>,
   <<"{", Q, "1", Q, ":", Q, "Kitchen", Q, ",", Q, "1", Q, ":", Q, "Hall", Q, "}">>}
NonObjectPayloads ==
  {<<"null">>, <<"5">>, <<Q, "H", Q>>, <<"[", Q, "Kitchen", Q, "]">>}
InvalidJsonPayloads ==
  {<<>>,
   <<"{">>,
   <<"charging">>,
   <<"{", Q, "1", Q, ":", Q, "Kitchen", Q, ",", "}">>,
   <<"{", Q, "1", Q, Q, "Kitchen", Q, "}">>,
   <<"{", Q, "1", Q, ":", Q, "Kitchen", Q, "}", "}">>}
SegmentsPayloads == ValidObjectPayloads \cup NonObjectPayloads \cup InvalidJsonPayloads

\* a topic of another appliance and a topic no handler branch matches
ForeignTopic == <<"valetudo", "/", "other", "/">> \o WatertankSuffix
UnmatchedTopic == <<"valetudo", "/", "robot", "/">> \o FanSetSuffix

Choose(p, rich, core) ==
  IF profile = p THEN rich ELSE IF profile = "presets" THEN {} ELSE core

PayloadsOn(topic) ==
  CASE EndsWith(topic, BatteryLevelSuffix) ->
         Choose("battery", BatteryPayloads, {<<"5">>, <<"charging">>})
    [] EndsWith(topic, BatteryStatusSuffix) ->
         Choose("state", StatusPayloads, {<<"charging">>})
    [] EndsWith(topic, DockStatusSuffix) ->
         Choose("state", DockPayloads, {<<"cleaning">>, <<>>})
    [] EndsWith(topic, StatusErrorSuffix) ->
         Choose("state", ErrorPayloads, {<<"error">>, <<"{", "}">>})
    [] EndsWith(topic, WatertankSuffix) ->
         IF profile = "control" THEN WatertankPayloads ELSE {<<"true">>, <<"false">>}
    [] EndsWith(topic, SegmentsSuffix) ->
         Choose("segments", SegmentsPayloads, {KitchenHall, <<"{">>})
    [] OTHER -> Choose("control", PresetPayloads, PresetPayloads)

InboundTopics ==
  {TopicOf(SubscribedSuffixes[i]) : i \in 1..Len(SubscribedSuffixes)}
    \cup {ForeignTopic, UnmatchedTopic}

RunModeTargets ==
  IF profile = "control"
  THEN {Str(<<"Idle">>), Str(<<"Cleaning">>), Str(<<"Mapping">>)}
  ELSE IF profile = "presets" THEN {}
  ELSE {Str(<<"Idle">>), Str(<<"Cleaning">>)}
CleanModes == {Str(<<"Vacuum">>), Str(<<"Mop">>)}

AreaIdValues == {Str(<<"A">>), Str(<<"2">>)}
AreaIdInputs ==
  IF profile = "control"
  THEN {Arr(s) : s \in SeqsUpTo(AreaIdValues, MaxAreaIds)}
         \cup {Null, Undefined, Str(<<"A">>), Num(5),
               Obj(<< <<(<<"length">>), Num(1)>> >>)}
  ELSE IF profile = "presets" THEN {}
  ELSE {Arr(<<Str(<<"A">>)>>), Arr(<<>>)}

\* ---------------------------------------------------------------- behaviour
Event(kind, x, y) == [kind |-> kind, x |-> x, y |-> y]

\* the field initialisers and the newly created device
Fresh ==
  [subscriptions |-> {}, watertank |-> FALSE, segments |-> Obj(<<>>),
   rvc |-> [cleanMode |-> Undefined, runMode |-> Undefined, battery |-> Undefined,
            operationalState |-> Undefined, serviceAreas |-> Undefined],
   effects |-> <<>>, threw |-> FALSE]

\* variant: the constructor also applies the default clean mode
constructorAppliesMode(st) ==
  LET defaultMode == Nullish(cfg.rvc.defaultCleanMode, Str(<<"Vacuum">>))
  IN  updateRunMode(applyCleanMode(updateCleanMode(st, defaultMode), defaultMode), "Idle")

\* the calls the constructor makes on the device
constructor(st) ==
  LET defaultMode == Nullish(cfg.rvc.defaultCleanMode, Str(<<"Vacuum">>))
  IN  updateRunMode(updateCleanMode(st, defaultMode), "Idle")

\* the state after the constructor has run with configuration cfg, for a
\* behaviour whose traffic profile is one of profiles
Constructed(profiles) ==
  /\ profile \in profiles
  /\ cfg \in ConfigsOf(profile)
  /\ inbox = <<>>
  /\ connected = FALSE
  /\ subscriptions = constructor(Fresh).subscriptions
  /\ watertank = constructor(Fresh).watertank
  /\ segments = constructor(Fresh).segments
  /\ rvc = constructor(Fresh).rvc
  /\ effects = constructor(Fresh).effects
  /\ threw = constructor(Fresh).threw
  /\ event = Event("construct", Undefined, Undefined)

Init == Constructed(Profiles)

\* the handler for event ev ran and left st
Handled(ev, st) ==
  /\ event' = ev
  /\ subscriptions' = st.subscriptions
  /\ watertank' = st.watertank
  /\ segments' = st.segments
  /\ rvc' = st.rvc
  /\ effects' = st.effects
  /\ threw' = st.threw
  /\ UNCHANGED <<cfg, profile>>

MqttConnect ==
  /\ connected' = TRUE
  /\ UNCHANGED inbox
  /\ Handled(Event("connect", Undefined, Undefined), onMqttConnect(Cur))

MqttMessage ==
  /\ connected
  /\ \E topic \in InboundTopics : \E msg \in PayloadsOn(topic) :
       Handled(Event("message", Str(topic), Str(msg)), onMqttMessage(Cur, topic, msg))
  /\ UNCHANGED <<connected, inbox>>

RunModeChange ==
  /\ \E target \in RunModeTargets :
       Handled(Event("runMode", target, Undefined), onRunModeChange(Cur, target))
  /\ UNCHANGED <<connected, inbox>>

Pause ==
  /\ Handled(Event("pause", Undefined, Undefined), onPause(Cur))
  /\ UNCHANGED <<connected, inbox>>

Resume ==
  /\ Handled(Event("resume", Undefined, Undefined), onResume(Cur))
  /\ UNCHANGED <<connected, inbox>>

Dock ==
  /\ Handled(Event("dock", Undefined, Undefined), onDock(Cur))
  /\ UNCHANGED <<connected, inbox>>

CleanModeChange ==
  /\ \E mode \in CleanModes :
       Handled(Event("cleanMode", mode, Undefined), onCleanModeChange(Cur, mode))
  /\ UNCHANGED <<connected, inbox>>

CleanServiceAreas ==
  /\ \E areaIds \in AreaIdInputs :
       Handled(Event("cleanServiceAreas", areaIds, Undefined), cleanServiceAreas(Cur, areaIds))
  /\ UNCHANGED <<connected, inbox>>

Next ==
  \/ MqttConnect
  \/ MqttMessage
  \/ RunModeChange
  \/ Pause
  \/ Resume
  \/ Dock
  \/ CleanModeChange
  \/ CleanServiceAreas

Spec == Init /\ [][Next]_vars

\* ------------------------------------------------------- event dispatching
\* The host emits events one after the other; each registered handler is a
\* synchronous function or an async function without an await before its
\* last statement, so a handler runs to its end when its event is dispatched.
\* Events emitted while a handler runs wait in the inbox.
LoopEvents ==
  {Event("connect", Undefined, Undefined),
   Event("message", Str(TopicOf(WatertankSuffix)), Str(<<"true">>)),
   Event("message", Str(TopicOf(WatertankSuffix)), Str(<<"false">>)),
   Event("message", Str(TopicOf(DockStatusSuffix)), Str(<<"cleaning">>)),
   Event("cleanMode", Str(<<"Mop">>), Undefined),
   Event("cleanMode", Str(<<"Vacuum">>), Undefined),
   Event("pause", Undefined, Undefined)}

\* the handler registered for the event's kind
handle(st, ev) ==
  CASE ev.kind = "connect" -> onMqttConnect(st)
    [] ev.kind = "message" -> onMqttMessage(st, ev.x.v, ev.y.v)
    [] ev.kind = "runMode" -> onRunModeChange(st, ev.x)
    [] ev.kind = "pause" -> onPause(st)
    [] ev.kind = "resume" -> onResume(st)
    [] ev.kind = "dock" -> onDock(st)
    [] ev.kind = "cleanMode" -> onCleanModeChange(st, ev.x)

\* variant: the event emitted last is handled first
NextInLineNewest(q) == Len(q)

\* position in the inbox of the event dispatched next
NextInLine(q) == 1

InitLoop == Constructed({"loop"})

\* the host emits an event while earlier ones are still waiting
Deliver ==
  /\ Len(inbox) < MaxInbox
  /\ \E ev \in LoopEvents :
       /\ ev.kind = "message" => connected
       /\ inbox' = Append(inbox, ev)
  /\ UNCHANGED <<profile, cfg, connected, subscriptions, watertank, segments, rvc,
                 effects, threw, event>>

\* the next waiting event is dispatched and its handler runs to its end
Dispatch ==
  /\ inbox # <<>>
  /\ LET n == NextInLine(inbox)
     IN  /\ Handled(inbox[n], handle(Cur, inbox[n]))
         /\ connected' = (connected \/ inbox[n].kind = "connect")
         /\ inbox' = SubSeq(inbox, 1, n - 1) \o SubSeq(inbox, n + 1, Len(inbox))

NextLoop ==
  \/ Deliver
  \/ Dispatch

SpecLoop == InitLoop /\ [][NextLoop]_vars

\* ------------------------------------------------------------ claim helpers
\* the step handles an inbound message on a topic with the given suffix
MessageOn(suffix) == event'.kind = "message" /\ EndsWith(event'.x.v, suffix)
\* the latest event was an inbound message on a topic with the given suffix
LastMessageOn(suffix) == event.kind = "message" /\ EndsWith(event.x.v, suffix)

AdapterStateUnchanged ==
  watertank' = watertank /\ segments' = segments /\ subscriptions' = subscriptions

Published(suffixText, payloadText) ==
  Effect("publish", Str(<<"valetudo", "/", "robot", "/">> \o suffixText), Str(payloadText))

OperationSetText == <<"BasicControlCapability", "/", "operation", "/", "set">>
WaterSetText == <<"WaterUsageControlCapability", "/", "preset", "/", "set">>
SegmentCleanText == <<"MapSegmentationCapability", "/", "clean", "/", "set">>

IsPublish(e) == e.call = "publish"
\* C1: a clean-mode-change event with mode Mop that arrives while the
\* attachment flag is false publishes nothing and updates nothing on the
\* device; its only effect is one informational log.
C1_MopRefusedWithoutTank ==
  [][(event'.kind = "cleanMode" /\ event'.x = Str(<<"Mop">>) /\ ~watertank)
       => /\ effects' = <<Effect("log.info", Undefined, Undefined)>>
          /\ rvc' = rvc
          /\ AdapterStateUnchanged
          /\ ~threw']_vars

\* Mop was selected without a tank after telemetry had already been received
C1_Witness ==
  /\ event.kind = "cleanMode" /\ event.x = Str(<<"Mop">>)
  /\ ~watertank
  /\ rvc.battery # Undefined
  /\ effects = <<Effect("log.info", Undefined, Undefined)>>

\* C2: a clean-mode-change event with mode Vacuum publishes "off" to
\* WaterUsageControlCapability/preset/set, whatever the configured presets
\* and whatever the attachment flag.
C2_VacuumPublishesWaterOff ==
  (event.kind = "cleanMode" /\ event.x = Str(<<"Vacuum">>))
    => /\ \E i \in 1..Len(effects) : effects[i] = Published(WaterSetText, <<"off">>)
       /\ \A i \in 1..Len(effects) :
            (IsPublish(effects[i]) /\ EndsWith(effects[i].x.v, WaterSetText))
              => effects[i].y = Str(<<"off">>)

\* Vacuum selected with the tank attached and the vacuum presets null and empty
C2_Witness ==
  /\ event.kind = "cleanMode" /\ event.x = Str(<<"Vacuum">>)
  /\ watertank
  /\ cfg.rvc.fanPresetForVacuum = Str(<<>>)
  /\ cfg.rvc.operationModePresetVacuum = Null
  /\ effects = <<Published(WaterSetText, <<"off">>)>>

\* the service-area list derived from a segment table: one {id, name} per entry
AreasOfTable(table) ==
  Arr([i \in 1..Len(table.v) |->
         Obj(<< <<(<<"id">>), Str(table.v[i][1])>>, <<(<<"name">>), table.v[i][2]>> >>)])

KitchenHallTable ==
  Obj(<< <<(<<"1">>), Str(<<"Kitchen">>)>>, <<(<<"2">>), Str(<<"Hall">>)>> >>)

\* C3: a MapData/segments message whose payload is a JSON object replaces the
\* segment table by that object; unless mapServiceAreasFromSegments is false
\* the device's service-area list becomes one {id, name} pair per table entry,
\* in the table's key order; if it is false the service-area list is untouched.
C3_SegmentsObjectReplacesTable ==
  [][(MessageOn(SegmentsSuffix) /\ event'.y.v \in ValidObjectPayloads)
       => /\ segments'.t = "obj"
          /\ event'.y.v \in {KitchenHall, HallKitchen} => segments' = KitchenHallTable
          /\ event'.y.v = <<"{", "}">> => segments' = Obj(<<>>)
          /\ JSONparse(JSONstringify(segments')) = ParseOk(segments', <<>>)
          /\ JSONparse(event'.y.v) = ParseOk(segments', <<>>)
          /\ IF cfg.rvc.mapServiceAreasFromSegments # Bool(FALSE)
             THEN /\ rvc' = [rvc EXCEPT !.serviceAreas = AreasOfTable(segments')]
                  /\ effects' = <<Effect("updateServiceAreas", AreasOfTable(segments'), Undefined)>>
             ELSE /\ rvc' = rvc
                  /\ effects' = <<>>
          /\ watertank' = watertank
          /\ ~threw']_vars

\* the payload listing Hall before Kitchen has been turned into the area list
C3_Witness ==
  /\ LastMessageOn(SegmentsSuffix) /\ event.y.v = HallKitchen
  /\ segments = KitchenHallTable
  /\ rvc.serviceAreas =
       Arr(<<Obj(<< <<(<<"id">>), Str(<<"1">>)>>, <<(<<"name">>), Str(<<"Kitchen">>)>> >>),
             Obj(<< <<(<<"id">>), Str(<<"2">>)>>, <<(<<"name">>), Str(<<"Hall">>)>> >>)>>)

\* C4: a MapData/segments message whose payload is not valid JSON leaves the
\* segment table and the service-area list as they were, logs one warning and
\* raises no error.
C4_InvalidSegmentsJsonIgnored ==
  [][(MessageOn(SegmentsSuffix) /\ event'.y.v \in InvalidJsonPayloads)
       => /\ segments' = segments
          /\ rvc' = rvc
          /\ watertank' = watertank
          /\ effects' = <<Effect("log.warn", Undefined, Undefined)>>
          /\ ~threw']_vars

\* a malformed payload arrived after a table had been stored
C4_Witness ==
  /\ LastMessageOn(SegmentsSuffix) /\ event.y.v \in InvalidJsonPayloads
  /\ segments = KitchenHallTable
  /\ rvc.serviceAreas = AreasOfTable(KitchenHallTable)
  /\ effects = <<Effect("log.warn", Undefined, Undefined)>>

NonEmptyArray(x) == x.t = "arr" /\ Len(x.v) > 0

\* C5: cleanServiceAreas with a non-empty sequence of area ids publishes
\* exactly one message, to MapSegmentationCapability/clean/set, whose payload
\* is the JSON text of {segment_ids: areaIds}, and sets the run-mode to
\* Cleaning after that publish.
C5_CleanAreasPublishesThenCleans ==
  (event.kind = "cleanServiceAreas" /\ NonEmptyArray(event.x))
    => /\ Len(effects) = 2
       /\ effects[1].call = "publish"
       /\ effects[1].x = Str(<<"valetudo", "/", "robot", "/">> \o SegmentCleanText)
       /\ JSONparse(effects[1].y.v)
            = ParseOk(Obj(<< <<(<<"segment_ids">>), event.x>> >>), <<>>)
       /\ event.x = Arr(<<Str(<<"A">>), Str(<<"2">>)>>)
            => effects[1].y.v = <<"{", Q, "segment_ids", Q, ":",
                                  "[", Q, "A", Q, ",", Q, "2", Q, "]", "}">>
       /\ effects[2] = Effect("updateRunMode", Str(<<"Cleaning">>), Undefined)
       /\ rvc.runMode = Str(<<"Cleaning">>)
       /\ ~threw

\* two areas were requested, in the order A, 2
C5_Witness ==
  /\ event.kind = "cleanServiceAreas"
  /\ event.x = Arr(<<Str(<<"A">>), Str(<<"2">>)>>)
  /\ Len(effects) = 2
  /\ rvc.runMode = Str(<<"Cleaning">>)

\* C6: cleanServiceAreas with an empty sequence, null, undefined or a value
\* that is not a sequence does nothing: no publish, no run-mode change, no
\* other state change and no error.
C6_CleanAreasInvalidInputNoOp ==
  [][(event'.kind = "cleanServiceAreas" /\ ~NonEmptyArray(event'.x))
       => /\ effects' = <<>>
          /\ rvc' = rvc
          /\ AdapterStateUnchanged
          /\ ~threw']_vars

\* an empty sequence was passed while the device was idle
C6_Witness ==
  /\ event.kind = "cleanServiceAreas" /\ event.x = Arr(<<>>)
  /\ effects = <<>>
  /\ rvc.runMode = Str(<<"Idle">>)
  /\ connected

\* C7: a DockStatusStateAttribute/status message with payload cleaning, idle,
\* pause or error sets the operational state to Running, Docked, Paused or
\* Error; any other payload changes nothing.
C7_DockStatusMapping ==
  [][MessageOn(DockStatusSuffix)
       => LET m == event'.y.v
              target == CASE m = <<"cleaning">> -> Str(<<"Running">>)
                          [] m = <<"idle">> -> Str(<<"Docked">>)
                          [] m = <<"pause">> -> Str(<<"Paused">>)
                          [] m = <<"error">> -> Str(<<"Error">>)
                          [] OTHER -> Undefined
          IN  /\ IF target # Undefined
                 THEN /\ rvc' = [rvc EXCEPT !.operationalState = target]
                      /\ effects' = <<Effect("updateOperationalState", target, Undefined)>>
                 ELSE /\ rvc' = rvc
                      /\ effects' = <<>>
              /\ AdapterStateUnchanged
              /\ ~threw']_vars

\* a pause report turned a running device into a paused one
C7_Witness ==
  /\ LastMessageOn(DockStatusSuffix) /\ event.y.v = <<"pause">>
  /\ rvc.operationalState = Str(<<"Paused">>)
  /\ rvc.battery # Undefined

\* C8: a StatusStateAttribute/error message with payload {}, null or the empty
\* string leaves the operational state as it was (an earlier Error stays); any
\* other payload sets the operational state to Error.
C8_ErrorMarkersIgnored ==
  [][MessageOn(StatusErrorSuffix)
       => IF event'.y.v \in {<<"{", "}">>, <<"null">>, <<>>}
          THEN /\ rvc' = rvc
               /\ effects' = <<>>
          ELSE /\ rvc' = [rvc EXCEPT !.operationalState = Str(<<"Error">>)]
               /\ effects' = <<Effect("updateOperationalState", Str(<<"Error">>), Undefined)>>]_vars

\* the null marker arrived while the device was in Error, and Error remained
C8_Witness ==
  /\ LastMessageOn(StatusErrorSuffix) /\ event.y.v = <<"null">>
  /\ rvc.operationalState = Str(<<"Error">>)
  /\ effects = <<>>

\* the payload is a decimal numeral, optionally signed and surrounded by blanks
IsNumeral(s) ==
  LET body == Trim(s)
      digits == IF body # <<>> /\ Head(body) \in {"-", "+"} THEN Tail(body) ELSE body
  IN  digits # <<>> /\ AllDigits(digits)

\* C9: a BatteryStateAttribute/level message updates the battery level to the
\* number its payload denotes if the payload is a number, and changes nothing
\* if the payload is not a number.
C9_BatteryUpdatedIffNumeric ==
  [][MessageOn(BatteryLevelSuffix)
       => IF IsNumeral(event'.y.v)
          THEN /\ rvc' = [rvc EXCEPT !.battery = Number(event'.y.v)]
               /\ AdapterStateUnchanged
          ELSE /\ rvc' = rvc
               /\ effects' = <<>>
               /\ AdapterStateUnchanged]_vars

\* C10: run-mode change, pause, resume and dock each publish exactly one
\* message, to valetudo/robot/BasicControlCapability/operation/set, and do
\* nothing else: START for run-mode Cleaning, STOP for any other run-mode,
\* PAUSE, START and HOME; the attachment flag and segment table are untouched.
C10_CommandsPublishOneOperation ==
  [][(event'.kind \in {"runMode", "pause", "resume", "dock"})
       => LET op == CASE event'.kind = "pause" -> "PAUSE"
                      [] event'.kind = "resume" -> "START"
                      [] event'.kind = "dock" -> "HOME"
                      [] OTHER -> IF event'.x = Str(<<"Cleaning">>) THEN "START" ELSE "STOP"
          IN  /\ effects' = <<Published(OperationSetText, <<op>>)>>
              /\ rvc' = rvc
              /\ AdapterStateUnchanged
              /\ ~threw']_vars

\* a run-mode other than Idle and Cleaning was requested and STOP was sent
C10_Witness ==
  /\ event.kind = "runMode" /\ event.x = Str(<<"Mapping">>)
  /\ effects = <<Published(OperationSetText, <<"STOP">>)>>
  /\ watertank

\* C11: the attachment flag is false until a watertank message arrives; each
\* AttachmentStateAttribute/watertank message sets it to true iff its payload
\* is exactly "true" or "1"; no other message, command or cleanServiceAreas
\* call changes it.  Hence the flag always is the classification of the most
\* recent watertank message.
C11_FlagFollowsLastWatertankMessage ==
  /\ watertank = FALSE
  /\ [][IF MessageOn(<<"AttachmentStateAttribute", "/", "watertank">>)
        THEN watertank' = (event'.y.v \in {<<"true">>, <<"1">>})
        ELSE watertank' = watertank]_vars

\* the payload "1" attached the tank after other telemetry had arrived
C11_Witness ==
  /\ LastMessageOn(WatertankSuffix) /\ event.y.v = <<"1">>
  /\ watertank
  /\ rvc.operationalState # Undefined

OperationModeSetText == <<"OperationModeControlCapability", "/", "preset", "/", "set">>
FanSetText == <<"FanSpeedControlCapability", "/", "preset", "/", "set">>

\* a preset value that is given and not the empty string
IsSet(x) == x.t = "str" /\ x.v # <<>>
\* the configured value, or the documented default when it is absent or null
OrDefault(x, d) == IF x.t \in {"undefined", "null"} THEN d ELSE x
\* a candidate publish [suffix, value] whose value is set
HasValue(p) == IsSet(p[2])
\* the publishes for the candidates whose value is set, in the candidates' order
PresetPublishes(candidates) ==
  LET kept == SelectSeq(candidates, HasValue)
  IN  [i \in 1..Len(kept) |-> Published(kept[i][1], kept[i][2].v)]

\* C12: a clean-mode-change event publishes operation-mode preset, fan
\* preset, water preset in that order, each at most once and only when its
\* value is non-empty (Vacuum's water value is always "off"); with every
\* option absent Vacuum publishes [fan standard, water off] and Mop with the
\* tank attached publishes [water medium].
C12_PresetsPublishedInOrder ==
  (event.kind = "cleanMode" /\ (event.x = Str(<<"Vacuum">>) \/ watertank))
    => /\ effects =
            PresetPublishes(
              IF event.x = Str(<<"Vacuum">>)
              THEN <<(<<OperationModeSetText, cfg.rvc.operationModePresetVacuum>>),
                     (<<FanSetText, OrDefault(cfg.rvc.fanPresetForVacuum, Str(<<"standard">>))>>),
                     (<<WaterSetText, Str(<<"off">>)>>)>>
              ELSE <<(<<OperationModeSetText, cfg.rvc.operationModePresetMop>>),
                     (<<FanSetText, cfg.rvc.fanPresetForMop>>),
                     (<<WaterSetText, OrDefault(cfg.rvc.waterPresetForMop, Str(<<"medium">>))>>)>>)
       /\ (cfg = DefaultCfg /\ event.x = Str(<<"Vacuum">>))
            => effects = <<Published(FanSetText, <<"standard">>),
                           Published(WaterSetText, <<"off">>)>>
       /\ (cfg = DefaultCfg /\ event.x = Str(<<"Mop">>))
            => effects = <<Published(WaterSetText, <<"medium">>)>>

\* Mop was selected with the tank attached and all three mop presets given
C12_Witness ==
  /\ event.kind = "cleanMode" /\ event.x = Str(<<"Mop">>)
  /\ watertank
  /\ effects = <<Published(OperationModeSetText, <<"custom">>),
                 Published(FanSetText, <<"custom">>),
                 Published(WaterSetText, <<"custom">>)>>

\* the JSON value each well-formed payload of the model denotes
DenotedValue(p) ==
  CASE p = <<"{", "}">> -> Obj(<<>>)
    [] p \in {KitchenHall, HallKitchen} -> KitchenHallTable
    [] p = <<"{", " ", Q, "1", Q, " ", ":", Q, "Kitchen", Q, "}", " ">> ->
         Obj(<< <<(<<"1">>), Str(<<"Kitchen">>)>> >>)
    [] p = <<"{", Q, "Attic", Q, ":", Q, "Hall", Q, ",", Q, "1", Q, ":", Q, "Kitchen", Q, "}">> ->
         Obj(<< <<(<<"1">>), Str(<<"Kitchen">>)>>, <<(<<"Attic">>), Str(<<"Hall">>)>> >>)
    [] p = <<"{", Q, "1", Q, ":", Q, "Kitchen", Q, ",", Q, "1", Q, ":", Q, "Hall", Q, "}">> ->
         Obj(<< <<(<<"1">>), Str(<<"Hall">>)>> >>)
    [] p = <<"null">> -> Null
    [] p = <<"5">> -> Num(5)
    [] p = <<Q, "H", Q>> -> Str(<<"H">>)
    [] p = <<"[", Q, "Kitchen", Q, "]">> -> Arr(<<Str(<<"Kitchen">>)>>)

WellFormedPayloads == ValidObjectPayloads \cup NonObjectPayloads

\* C13: the segment table is replaced wholesale: a MapData/segments message
\* with well-formed JSON makes the table exactly the value that JSON denotes,
\* whatever the table held before, and nothing else changes the table; so the
\* table always is what the most recent well-formed message denoted.
C13_TableReplacedWholesale ==
  /\ segments = Obj(<<>>)
  /\ [][IF MessageOn(<<"MapData", "/", "segments">>) /\ event'.y.v \in WellFormedPayloads
        THEN segments' = DenotedValue(event'.y.v)
        ELSE segments' = segments]_vars

\* the empty object arrived and the table is empty, with area derivation on
C13_Witness ==
  /\ LastMessageOn(SegmentsSuffix)
  /\ event.y.v = <<"{", "}">>
  /\ segments = Obj(<<>>)
  /\ rvc.serviceAreas = Arr(<<>>)
  /\ rvc.battery # Undefined

\* the topic of the step's message ends with one of the given suffixes
TopicEndsWithOneOf(suffixes) ==
  \E s \in suffixes : EndsWith(event'.x.v, s)

StateSuffixes == {BatteryStatusSuffix, DockStatusSuffix, StatusErrorSuffix}
HandledSuffixes ==
  {BatteryLevelSuffix, WatertankSuffix, SegmentsSuffix} \cup StateSuffixes

\* C14: a message is handled by the one branch whose suffix its topic ends
\* with: it makes at most one call and touches only what that branch owns; a
\* message on FanSpeedControlCapability/preset or
\* WaterUsageControlCapability/preset, or on a topic ending with none of the
\* eight suffixes, changes nothing and logs nothing.
C14_DispatchBySuffix ==
  [][event'.kind = "message"
       => /\ Len(effects') <= 1
          /\ ~threw'
          /\ subscriptions' = subscriptions
          /\ rvc'.runMode = rvc.runMode
          /\ rvc'.cleanMode = rvc.cleanMode
          /\ TopicEndsWithOneOf({BatteryLevelSuffix}) \/ rvc'.battery = rvc.battery
          /\ TopicEndsWithOneOf(StateSuffixes) \/ rvc'.operationalState = rvc.operationalState
          /\ TopicEndsWithOneOf({WatertankSuffix}) \/ watertank' = watertank
          /\ TopicEndsWithOneOf({SegmentsSuffix})
               \/ (segments' = segments /\ rvc'.serviceAreas = rvc.serviceAreas)
          /\ TopicEndsWithOneOf(HandledSuffixes)
               \/ (effects' = <<>> /\ rvc' = rvc /\ watertank' = watertank
                     /\ segments' = segments)]_vars

\* a message on a topic no branch matches arrived and left no trace
C14_Witness ==
  /\ event.kind = "message"
  /\ event.x.v = <<"valetudo", "/", "robot", "/",
                   "FanSpeedControlCapability", "/", "preset", "/", "set">>
  /\ effects = <<>>
  /\ rvc.operationalState # Undefined

\* <prefix>/<identifier>/<suffix> for the eight subscribed suffixes
ExpectedSubscriptionTopics ==
  [i \in 1..8 |->
     <<"valetudo", "/", "robot", "/">> \o
       <<(<<"BatteryStateAttribute", "/", "level">>),
         (<<"BatteryStateAttribute", "/", "status">>),
         (<<"Dock", "StatusStateAttribute", "/", "status">>),
         (<<"StatusStateAttribute", "/", "error">>),
         (<<"AttachmentStateAttribute", "/", "watertank">>),
         (<<"FanSpeedControlCapability", "/", "preset">>),
         (<<"WaterUsageControlCapability", "/", "preset">>),
         (<<"MapData", "/", "segments">>)>>[i]]

\* C15: no subscription exists before the first connect event; every connect
\* event (a reconnect too) issues exactly the eight subscriptions
\* <prefix>/<identifier>/<suffix>; no other event subscribes.
C15_SubscribeOnConnectOnly ==
  /\ [](~connected => subscriptions = {})
  /\ [][IF event'.kind = "connect"
        THEN /\ effects' = [i \in 1..8 |->
                              Effect("subscribe", Str(ExpectedSubscriptionTopics[i]), Undefined)]
             /\ subscriptions' = {ExpectedSubscriptionTopics[i] : i \in 1..8}
        ELSE /\ subscriptions' = subscriptions
             /\ \A i \in 1..Len(effects') : effects'[i].call # "subscribe"]_vars

\* the transport reconnected after telemetry had been received
C15_Witness ==
  /\ event.kind = "connect"
  /\ rvc.battery # Undefined
  /\ Len(effects) = 8
  /\ Cardinality(subscriptions) = 8

\* C16: right after construction the device has the configured default clean
\* mode (Vacuum when none is configured) and run-mode Idle, the attachment
\* flag is false, the segment table is empty, and the only calls made were
\* the two device updates: nothing was published.
C16_ConstructionState ==
  event.kind = "construct"
    => /\ rvc.cleanMode =
            (IF cfg.rvc.defaultCleanMode \in {Str(<<"Vacuum">>), Str(<<"Mop">>)}
             THEN cfg.rvc.defaultCleanMode ELSE Str(<<"Vacuum">>))
       /\ rvc.runMode = Str(<<"Idle">>)
       /\ watertank = FALSE
       /\ segments = Obj(<<>>)
       /\ subscriptions = {}
       /\ effects = <<Effect("updateCleanMode", rvc.cleanMode, Undefined),
                      Effect("updateRunMode", Str(<<"Idle">>), Undefined)>>
       /\ ~threw

\* the bridge was constructed with Mop as the default clean mode
C16_Witness ==
  /\ event.kind = "construct"
  /\ cfg.rvc.defaultCleanMode = Str(<<"Mop">>)
  /\ rvc.cleanMode = Str(<<"Mop">>)
  /\ Len(effects) = 2

\* <prefix>/<identifier>/<suffix> for the five published suffixes
PublishedTopics ==
  {<<"valetudo", "/", "robot", "/">> \o s :
     s \in {OperationSetText, OperationModeSetText, FanSetText, WaterSetText,
            SegmentCleanText}}

\* C18: handling an inbound message (or a connect event) publishes nothing;
\* every publish is made while handling a command event or a
\* cleanServiceAreas call, on one of the five published topics.
C18_OnlyCommandsPublish ==
  \A i \in 1..Len(effects) :
    effects[i].call = "publish"
      => /\ event.kind \in {"runMode", "pause", "resume", "dock", "cleanMode",
                            "cleanServiceAreas"}
         /\ effects[i].x.v \in PublishedTopics

\* a segments message made a device update and no publish
C18_Witness ==
  /\ LastMessageOn(SegmentsSuffix)
  /\ Len(effects) = 1
  /\ effects[1].call = "updateServiceAreas"
  /\ watertank

\* C19: the segment table always is a mapping (a JSON object), and whenever
\* a MapData/segments message logs a warning the table is what it was before
\* that message.
C19_TableAlwaysMapping ==
  /\ [](segments.t = "obj")
  /\ [][(MessageOn(SegmentsSuffix)
          /\ \E i \in 1..Len(effects') : effects'[i].call = "log.warn")
         => segments' = segments]_vars

IsMessageOn(ev, suffix) == ev.kind = "message" /\ EndsWith(ev.x.v, suffix)

====
